---- MODULE Spec2Model ----
(***************************************************************************)
(* The "Generate Lesson Plan" handler of src/app.py: input checks, the     *)
(* single completion request, the clean-up of the response text, the JSON  *)
(* parse, the projection of the parsed object onto the lesson table, the   *)
(* save and the download offer.                                            *)
(*                                                                         *)
(* Text that the program manipulates character by character (the response, *)
(* JSON keys and values, cell texts, file names) is a sequence of its      *)
(* characters, each a string.  Tags that are only compared (exception      *)
(* types, program positions, fixed messages) are plain strings.            *)
(***************************************************************************)
EXTENDS Integers, Sequences, FiniteSets, TLC

VARIABLES
    api_key,        \* sidebar text input, line 18 ("" when nothing was typed)
    uploaded_file,  \* st.file_uploader result, line 31 (NoFile or a file)
    subject,        \* line 22
    grade_level,    \* line 21
    pc,             \* position of the handler inside one script run
    configured,     \* genai.configure was called in this run
    model,          \* the model identifier in use, NoModel before line 66
    requests,       \* generate_content calls issued in this run
    response_text,  \* response.text
    json_str,       \* line 108
    data,           \* line 109
    table,          \* rows of the document table, each a sequence of cell texts
    row,            \* index into row_labels of the next row to add
    doc_io,         \* the saved buffer, NoDoc before line 159
    shown,          \* st.error / st.success messages of this run, in order
    download,       \* the st.download_button of this run, NoDownload if none
    prev_offer      \* history: request and file name of the previous offer

vars == <<api_key, uploaded_file, subject, grade_level, pc, configured, model,
          requests, response_text, json_str, data, table, row, doc_io, shown,
          download, prev_offer>>

---------------------------------------------------------------------------
(* Literal texts of the source.                                            *)

\* days, line 36
Monday == <<"M", "o", "n", "d", "a", "y">>
Tuesday == <<"T", "u", "e", "s", "d", "a", "y">>
Wednesday == <<"W", "e", "d", "n", "e", "s", "d", "a", "y">>
Thursday == <<"T", "h", "u", "r", "s", "d", "a", "y">>
Friday == <<"F", "r", "i", "d", "a", "y">>
days == <<Monday, Tuesday, Wednesday, Thursday, Friday>>

\* keys of row_labels, lines 137-146
k_review == <<"r", "e", "v", "i", "e", "w">>
k_purpose == <<"p", "u", "r", "p", "o", "s", "e">>
k_examples == <<"e", "x", "a", "m", "p", "l", "e", "s">>
k_discuss_1 == <<"d", "i", "s", "c", "u", "s", "s", "_", "1">>
k_discuss_2 == <<"d", "i", "s", "c", "u", "s", "s", "_", "2">>
k_mastery == <<"m", "a", "s", "t", "e", "r", "y">>
k_application == <<"a", "p", "p", "l", "i", "c", "a", "t", "i", "o", "n">>
k_generalization == <<"g", "e", "n", "e", "r", "a", "l", "i", "z", "a", "t", "i", "o", "n">>
k_evaluation == <<"e", "v", "a", "l", "u", "a", "t", "i", "o", "n">>
k_remediation == <<"r", "e", "m", "e", "d", "i", "a", "t", "i", "o", "n">>

\* display labels of row_labels, lines 137-146
l_review == <<"R", "e", "v", "i", "e", "w", "i", "n", "g", " ", "p", "r", "e", "v", "i", "o", "u", "s", " ", "l", "e", "s", "s", "o", "n">>
l_purpose == <<"E", "s", "t", "a", "b", "l", "i", "s", "h", "i", "n", "g", " ", "p", "u", "r", "p", "o", "s", "e">>
l_examples == <<"P", "r", "e", "s", "e", "n", "t", "i", "n", "g", " ", "e", "x", "a", "m", "p", "l", "e", "s">>
l_discuss_1 == <<"D", "i", "s", "c", "u", "s", "s", "i", "n", "g", " ", "n", "e", "w", " ", "c", "o", "n", "c", "e", "p", "t", "s", " ", "#", "1">>
l_discuss_2 == <<"D", "i", "s", "c", "u", "s", "s", "i", "n", "g", " ", "n", "e", "w", " ", "c", "o", "n", "c", "e", "p", "t", "s", " ", "#", "2">>
l_mastery == <<"D", "e", "v", "e", "l", "o", "p", "i", "n", "g", " ", "M", "a", "s", "t", "e", "r", "y">>
l_application == <<"P", "r", "a", "c", "t", "i", "c", "a", "l", " ", "a", "p", "p", "l", "i", "c", "a", "t", "i", "o", "n">>
l_generalization == <<"M", "a", "k", "i", "n", "g", " ", "g", "e", "n", "e", "r", "a", "l", "i", "z", "a", "t", "i", "o", "n", "s">>
l_evaluation == <<"E", "v", "a", "l", "u", "a", "t", "i", "n", "g", " ", "l", "e", "a", "r", "n", "i", "n", "g">>
l_remediation == <<"A", "d", "d", "i", "t", "i", "o", "n", "a", "l", " ", "a", "c", "t", "i", "v", "i", "t", "i", "e", "s">>

row_labels ==
    << <<k_review, l_review>>, <<k_purpose, l_purpose>>,
       <<k_examples, l_examples>>, <<k_discuss_1, l_discuss_1>>,
       <<k_discuss_2, l_discuss_2>>, <<k_mastery, l_mastery>>,
       <<k_application, l_application>>,
       <<k_generalization, l_generalization>>,
       <<k_evaluation, l_evaluation>>, <<k_remediation, l_remediation>> >>

\* "Parts of the Lesson", line 131
hdr_label == <<"P", "a", "r", "t", "s", " ", "o", "f", " ", "t", "h", "e", " ", "L", "e", "s", "s", "o", "n">>
\* "Lesson_Plan.docx", line 168
Lesson_Plan_docx == <<"L", "e", "s", "s", "o", "n", "_", "P", "l", "a", "n", ".", "d", "o", "c", "x">>
\* 'gemini-1.5-flash', line 66
gemini_1_5_flash == <<"g", "e", "m", "i", "n", "i", "-", "1", ".", "5", "-", "f", "l", "a", "s", "h">>
\* f-string prefixes of lines 120-123
heading_prefix == <<"D", "a", "i", "l", "y", " ", "L", "e", "s", "s", "o", "n", " ", "L", "o", "g", " ", "-", " ">>
week_prefix == <<"W", "e", "e", "k", ":", " ">>
content_prefix == <<"C", "o", "n", "t", "e", "n", "t", " ", "S", "t", "a", "n", "d", "a", "r", "d", ":", " ">>
perf_prefix == <<"P", "e", "r", "f", "o", "r", "m", "a", "n", "c", "e", " ", "S", "t", "a", "n", "d", "a", "r", "d", ":", " ">>
\* default of the Quarter/Week input, line 23; the text areas of lines 26-27
\* start empty
quarter == <<"Q", "u", "a", "r", "t", "e", "r", " ", "1", " ", "-", " ", "W", "e", "e", "k", " ", "1">>
content_std == <<>>
perf_std == <<>>

\* the character U+0060 (grave accent); a TLA+ string literal cannot hold it,
\* so it is named
BT == "U+0060"
\* the fence markers of line 108
FENCE == <<BT, BT, BT>>
FENCE_JSON == <<BT, BT, BT, "j", "s", "o", "n">>

---------------------------------------------------------------------------
(* str.find and str.replace with an empty replacement, line 108.           *)

\* s[i:].startswith(old)
Occurs(s, old, i) ==
    /\ i + Len(old) - 1 <= Len(s)
    /\ \A k \in 1..Len(old) : s[i + k - 1] = old[k]

SetMin(S) == CHOOSE x \in S : \A y \in S : x <= y

\* str.find: the first index >= i at which old occurs in s, 0 when there
\* is none
Find(s, old, i) ==
    IF \E j \in i..Len(s) : Occurs(s, old, j)
    THEN CHOOSE j \in i..Len(s) :
            Occurs(s, old, j) /\ \A k \in i..(j - 1) : ~Occurs(s, old, k)
    ELSE 0

\* the copy loop of str.replace: everything up to the next occurrence is
\* kept, the occurrence is dropped, the scan resumes right after it
RECURSIVE ReplaceFrom(_, _, _)
ReplaceFrom(s, old, i) ==
    LET k == Find(s, old, i)
    IN  IF k = 0 THEN SubSeq(s, i, Len(s))
        ELSE SubSeq(s, i, k - 1) \o ReplaceFrom(s, old, k + Len(old))

Replace(s, old) == ReplaceFrom(s, old, 1)

\* line 108 with the two replace calls in the other order: the labelled
\* fence loses its marker first and its label stays behind
JsonStrUnlabelledFirst(text) == Replace(Replace(text, FENCE), FENCE_JSON)

\* line 108: both replace calls, the labelled fence first
JsonStr(text) == Replace(Replace(text, FENCE_JSON), FENCE)

---------------------------------------------------------------------------
(* Python values, as json.loads builds them.  A value is a record of its   *)
(* type name t and its content v: for a dict the sequence of its           *)
(* <<key, value>> items in insertion order (keys unique), for a list the   *)
(* sequence of its elements, for a str its characters, for a number its    *)
(* lexeme.                                                                 *)

Val(t, v) == [t |-> t, v |-> v]
NoneVal == Val("NoneType", <<>>)
StrVal(s) == Val("str", s)

\* the keys of a dict's items
Keys(items) == {items[i][1] : i \in 1..Len(items)}

\* d[k] for a key the dict holds
Item(items, k) == items[CHOOSE i \in 1..Len(items) : items[i][1] = k][2]

\* d[k] = v: a key already present keeps its place
DictSet(items, k, v) ==
    IF k \in Keys(items)
    THEN [i \in 1..Len(items) |->
             IF items[i][1] = k THEN <<k, v>> ELSE items[i]]
    ELSE Append(items, <<k, v>>)

---------------------------------------------------------------------------
(* json.loads, line 109: the JSON grammar of Python's json scanner with    *)
(* its default (strict) settings.  A scan returns whether it succeeded,    *)
(* the value and the index after it; on failure end is where it gave up.   *)
(* Escape sequences are not modelled: no text of the model holds a         *)
(* backslash.                                                              *)

WS == {" ", "\t", "\n", "\r"}
ControlChars == {"\t", "\n", "\r"}
Digits == {"0", "1", "2", "3", "4", "5", "6", "7", "8", "9"}
QUOTE == "\""

Ok(val, end) == [ok |-> TRUE, val |-> val, end |-> end]
Err(pos) == [ok |-> FALSE, val |-> NoneVal, end |-> pos]

At(s, i, c) == i <= Len(s) /\ s[i] = c

\* the index of the first non-whitespace character at or after i
SkipWs(s, i) ==
    IF \E j \in i..Len(s) : s[j] \notin WS
    THEN CHOOSE j \in i..Len(s) :
            s[j] \notin WS /\ \A k \in i..(j - 1) : s[k] \in WS
    ELSE Len(s) + 1

\* scanstring: s[i - 1] is the opening quote, q the index of the next
\* quote (0 when there is none); a control character inside is an error
ScanStringTo(s, i, q) ==
    IF q = 0 THEN Err(i - 1)
    ELSE IF \E j \in i..(q - 1) : s[j] \in ControlChars THEN Err(i)
    ELSE Ok(StrVal(SubSeq(s, i, q - 1)), q + 1)

ScanString(s, i) == ScanStringTo(s, i, Find(s, <<QUOTE>>, i))

\* the index after the run of digits that starts at i
DigitRunEnd(s, i) ==
    IF \E j \in i..Len(s) : s[j] \notin Digits
    THEN CHOOSE j \in i..Len(s) :
            s[j] \notin Digits /\ \A k \in i..(j - 1) : s[k] \in Digits
    ELSE Len(s) + 1

\* NUMBER_RE, (-?(?:0|[1-9]\d*))(\.\d+)?([eE][-+]?\d+)?, matched at i: the
\* end of the integer part (0 when it does not match) and of the whole
\* match.  Each group is an operator of the ends found so far.
NumExpDigits(s, intEnd, fracEnd, expAt) ==
    [int |-> intEnd,
     end |-> IF expAt # 0 /\ expAt <= Len(s) /\ s[expAt] \in Digits
             THEN DigitRunEnd(s, expAt) ELSE fracEnd]

NumExp(s, intEnd, fracEnd) ==
    NumExpDigits(s, intEnd, fracEnd,
        IF At(s, fracEnd, "e") \/ At(s, fracEnd, "E")
        THEN IF At(s, fracEnd + 1, "+") \/ At(s, fracEnd + 1, "-")
             THEN fracEnd + 2 ELSE fracEnd + 1
        ELSE 0)

NumFrac(s, intEnd) ==
    IF intEnd = 0 THEN [int |-> 0, end |-> 0]
    ELSE NumExp(s, intEnd,
            IF /\ At(s, intEnd, ".")
               /\ intEnd + 1 <= Len(s)
               /\ s[intEnd + 1] \in Digits
            THEN DigitRunEnd(s, intEnd + 1) ELSE intEnd)

NumInt(s, a) ==
    NumFrac(s, IF At(s, a, "0") THEN a + 1
               ELSE IF a <= Len(s) /\ s[a] \in Digits
                    THEN DigitRunEnd(s, a) ELSE 0)

NumberMatch(s, i) == NumInt(s, IF At(s, i, "-") THEN i + 1 ELSE i)

lit_null == <<"n", "u", "l", "l">>
lit_true == <<"t", "r", "u", "e">>
lit_false == <<"f", "a", "l", "s", "e">>
lit_NaN == <<"N", "a", "N">>
lit_Infinity == <<"I", "n", "f", "i", "n", "i", "t", "y">>
lit_NegInfinity == <<"-", "I", "n", "f", "i", "n", "i", "t", "y">>

RECURSIVE ScanOnce(_, _), Members(_, _, _), Elements(_, _, _)

\* JSONObject: s[j - 1] is the opening brace or whitespace after it
JSONObjectAt(s, j) ==
    IF At(s, j, "}") THEN Ok(Val("dict", <<>>), j + 1)
    ELSE IF At(s, j, QUOTE) THEN Members(s, j + 1, <<>>)
    ELSE Err(j)

JSONObject(s, i) == JSONObjectAt(s, SkipWs(s, i))

\* the member loop of JSONObject, one operator per step: after the pair
\* was stored (acc) and the next character is at e, ...
MembersNextKey(s, acc, n) ==
    IF At(s, n, QUOTE) THEN Members(s, n + 1, acc) ELSE Err(n)

MembersEnd(s, acc, e) ==
    IF At(s, e, "}") THEN Ok(Val("dict", acc), e + 1)
    ELSE IF ~At(s, e, ",") THEN Err(e)
    ELSE MembersNextKey(s, acc, SkipWs(s, e + 1))

\* ... after the value v of the key was scanned, ...
MembersValue(s, acc, key, v) ==
    IF ~v.ok THEN v
    ELSE MembersEnd(s, DictSet(acc, key.val.v, v.val), SkipWs(s, v.end))

\* ... after the key, with the next character at c, ...
MembersColon(s, acc, key, c) ==
    IF ~At(s, c, ":") THEN Err(c)
    ELSE MembersValue(s, acc, key, ScanOnce(s, SkipWs(s, c + 1)))

MembersKey(s, acc, key) ==
    IF ~key.ok THEN key
    ELSE MembersColon(s, acc, key, SkipWs(s, key.end))

\* ... and its start: s[i - 1] is the opening quote of a key
Members(s, i, acc) == MembersKey(s, acc, ScanString(s, i))

\* JSONArray: s[j - 1] is the opening bracket or whitespace after it
JSONArrayAt(s, j) ==
    IF At(s, j, "]") THEN Ok(Val("list", <<>>), j + 1)
    ELSE Elements(s, j, <<>>)

JSONArray(s, i) == JSONArrayAt(s, SkipWs(s, i))

\* the element loop of JSONArray: after the element was appended (acc) and
\* the next character is at e, after the element v was scanned, and its
\* start, where an element is expected at i
ElementsEnd(s, acc, e) ==
    IF At(s, e, "]") THEN Ok(Val("list", acc), e + 1)
    ELSE IF ~At(s, e, ",") THEN Err(e)
    ELSE Elements(s, SkipWs(s, e + 1), acc)

ElementsValue(s, acc, v) ==
    IF ~v.ok THEN v
    ELSE ElementsEnd(s, Append(acc, v.val), SkipWs(s, v.end))

Elements(s, i, acc) == ElementsValue(s, acc, ScanOnce(s, i))

\* the number and constant cases of scan_once, num the match of NUMBER_RE
ScanNumber(s, i, num) ==
    IF num.int # 0
    THEN Ok(Val(IF num.end = num.int THEN "int" ELSE "float",
                SubSeq(s, i, num.end - 1)), num.end)
    ELSE IF Occurs(s, lit_NaN, i) THEN Ok(Val("float", lit_NaN), i + 3)
    ELSE IF Occurs(s, lit_Infinity, i)
         THEN Ok(Val("float", lit_Infinity), i + 8)
    ELSE IF Occurs(s, lit_NegInfinity, i)
         THEN Ok(Val("float", lit_NegInfinity), i + 9)
    ELSE Err(i)

\* scan_once: the value that starts at i
ScanOnce(s, i) ==
    IF i > Len(s) THEN Err(i)
    ELSE IF s[i] = QUOTE THEN ScanString(s, i + 1)
    ELSE IF s[i] = "{" THEN JSONObject(s, i + 1)
    ELSE IF s[i] = "[" THEN JSONArray(s, i + 1)
    ELSE IF Occurs(s, lit_null, i) THEN Ok(NoneVal, i + 4)
    ELSE IF Occurs(s, lit_true, i) THEN Ok(Val("bool", <<"1">>), i + 4)
    ELSE IF Occurs(s, lit_false, i) THEN Ok(Val("bool", <<"0">>), i + 5)
    ELSE ScanNumber(s, i, NumberMatch(s, i))

\* json.loads: one value, whitespace around it, nothing after it
LoadsEnd(s, r) ==
    IF ~r.ok THEN r
    ELSE IF SkipWs(s, r.end) # Len(s) + 1 THEN Err(r.end)
    ELSE r

Loads(s) == LoadsEnd(s, ScanOnce(s, SkipWs(s, 1)))

---------------------------------------------------------------------------
(* The operations of lines 152-155 on a parsed value.  Each returns the    *)
(* exception it raises ("" when it raises none) and its result.            *)

Res(raised, val) == [raised |-> raised, val |-> val]

\* key in data, line 152: membership of a dict's keys, of a list's
\* elements, substring of a str; other types are not iterable
Contains(d, key) ==
    CASE d.t = "dict" -> Res("", key \in Keys(d.v))
      [] d.t = "list" ->
            Res("", \E i \in 1..Len(d.v) : d.v[i].t = "str" /\ d.v[i].v = key)
      [] d.t = "str" -> Res("", Find(d.v, key, 1) # 0)
      [] OTHER -> Res("TypeError", FALSE)

\* data[key], line 155, evaluated only after key in data was true
Subscript(d, key) ==
    IF d.t = "dict" THEN Res("", Item(d.v, key))
    ELSE Res("TypeError", NoneVal)

\* line 155 without the default: a missing day gives None
GetNoDefault(m, day) ==
    IF m.t # "dict" THEN Res("AttributeError", NoneVal)
    ELSE IF day \in Keys(m.v) THEN Res("", Item(m.v, day))
    ELSE Res("", NoneVal)

\* line 155 guarded against a part that is no mapping: it reads as empty
GetLenient(m, day) ==
    IF m.t = "dict" /\ day \in Keys(m.v) THEN Res("", Item(m.v, day))
    ELSE Res("", StrVal(<<>>))

\* .get(day, ""), line 155: only a dict has the method
Get(m, day) ==
    IF m.t # "dict" THEN Res("AttributeError", NoneVal)
    ELSE IF day \in Keys(m.v) THEN Res("", Item(m.v, day))
    ELSE Res("", StrVal(<<>>))

RECURSIVE Concat(_)
Concat(ss) == IF ss = <<>> THEN <<>> ELSE Head(ss) \o Concat(Tail(ss))

\* row_cells[i+1].text = value, line 155: the setter of python-docx walks
\* the value and joins what it meets, so a str is stored as it is, a
\* container of strs as their concatenation (a dict gives its keys), and
\* anything else is a TypeError
SetText(value) ==
    CASE value.t = "str" -> Res("", value.v)
      [] value.t = "dict" ->
            Res("", Concat([i \in 1..Len(value.v) |-> value.v[i][1]]))
      [] value.t = "list" ->
            IF \A i \in 1..Len(value.v) : value.v[i].t = "str"
            THEN Res("", Concat([i \in 1..Len(value.v) |-> value.v[i].v]))
            ELSE Res("TypeError", <<>>)
      [] OTHER -> Res("TypeError", <<>>)

\* the assignment of line 155 for one day, got the result of .get
CellSet(got) ==
    IF got.raised # "" THEN Res(got.raised, <<>>) ELSE SetText(got.val)

\* the right-hand side of line 155 for one day, part the result of data[key]
CellGet(part, day) ==
    IF part.raised # "" THEN Res(part.raised, <<>>)
    ELSE CellSet(Get(part.val, day))

Cell(d, key, day) == CellGet(Subscript(d, key), day)

\* the inner loop of lines 153-155 over cells, the outcome of line 155 for
\* each day: it stops at the first day that raises, and the cells after it
\* keep the empty text of a fresh row
FillCells(label, cells, bad) ==
    IF bad = {}
    THEN Res("", <<label>> \o [j \in 1..Len(days) |-> cells[j].val])
    ELSE Res(cells[SetMin(bad)].raised,
             <<label>> \o [j \in 1..Len(days) |->
                             IF j < SetMin(bad) THEN cells[j].val ELSE <<>>])

FillDays(label, cells) ==
    FillCells(label, cells, {j \in 1..Len(days) : cells[j].raised # ""})

\* lines 149-155 with the day cells added only for a part that is there: a
\* missing part gives a row of the label alone
FillRowIfShort(d, pair, has) ==
    IF has.raised # "" \/ ~has.val
    THEN Res(has.raised, <<pair[2]>>)
    ELSE FillDays(pair[2], [j \in 1..Len(days) |-> Cell(d, pair[1], days[j])])

\* one pass of the loop of lines 149-155 for the pair <<key, label>>, has
\* the result of key in data: the new row as far as it was filled, and the
\* exception that stopped it, if any
FillRowIf(d, pair, has) ==
    IF has.raised # "" \/ ~has.val
    THEN Res(has.raised, <<pair[2]>> \o [j \in 1..Len(days) |-> <<>>])
    ELSE FillDays(pair[2], [j \in 1..Len(days) |-> Cell(d, pair[1], days[j])])

FillRow(d, pair) == FillRowIf(d, pair, Contains(d, pair[1]))

---------------------------------------------------------------------------
(* The form (lines 18-31) and the texts the provider may answer with       *)
(* (line 101).  The answers follow the structure the prompt asks for       *)
(* (lines 85-96) and depart from it in the ways an answer can: parts or    *)
(* weekdays left out, keys nobody asked for, values of the wrong type, a   *)
(* top level that is no object, text that is no JSON, fences and prose     *)
(* around the JSON.                                                        *)

\* the most parts a generated answer with several parts holds
MaxParts == 2

Science == <<"S", "c", "i", "e", "n", "c", "e">>
Math == <<"M", "a", "t", "h">>
Grade5 == <<"G", "r", "a", "d", "e", " ", "5">>
Grade6 == <<"G", "r", "a", "d", "e", " ", "6">>

ApiKeys == {<<>>, <<"k">>}
Files == {<<>>, <<[type |-> <<"t", "x", "t">>, data |-> <<"m">>]>>}
Subjects == {Science, Math}
Grades == {Grade5, Grade6}

\* a key outside the fixed ten
k_notes == <<"n", "o", "t", "e", "s">>
GenKeys == [i \in 1..Len(row_labels) |-> row_labels[i][1]] \o <<k_notes>>

Q(s) == <<QUOTE>> \o s \o <<QUOTE>>
Member(k, vtext) == Q(k) \o <<":">> \o vtext

RECURSIVE JoinComma(_)
JoinComma(ss) ==
    IF ss = <<>> THEN <<>>
    ELSE IF Len(ss) = 1 THEN ss[1]
    ELSE ss[1] \o <<",">> \o JoinComma(Tail(ss))

ObjText(members) == <<"{">> \o JoinComma(members) \o <<"}">>

Sorted(S) ==
    [n \in 1..Cardinality(S) |->
        CHOOSE x \in S : Cardinality({y \in S : y < x}) = n - 1]

\* a text of its own for the cell of part i and day j
PartChar == <<"a", "b", "c", "d", "e", "f", "g", "h", "i", "j", "k">>
DayChar == <<"1", "2", "3", "4", "5">>
CellText(i, j) == <<"c", PartChar[i], DayChar[j]>>

\* the mapping of part i with the days D (indices into days), in day order
DayMapText(i, D) ==
    ObjText([n \in 1..Cardinality(D) |->
                Member(days[Sorted(D)[n]], Q(CellText(i, Sorted(D)[n])))])

DaySets == {{}, {1}, {1, 5}, {2, 3, 4}, 1..5}

\* values of one part: weekday mappings, mappings with a key that is no
\* weekday or with a cell that is no text, and values that are no mapping
PartValueTexts(i) ==
    {DayMapText(i, D) : D \in DaySets}
    \cup {ObjText(<<Member(<<"S", "u", "n", "d", "a", "y">>, <<"7">>),
                    Member(Tuesday, Q(CellText(i, 2)))>>),
          ObjText(<<Member(Monday, <<"5">>)>>),
          ObjText(<<Member(Monday, Q(CellText(i, 1))),
                    Member(Tuesday, lit_null)>>),
          ObjText(<<Member(Friday, <<"[", "]">>)>>),
          lit_null, Q(<<"t", "e", "x", "t">>), <<"7">>, lit_true,
          <<"[", "]">>, <<"[">> \o Q(Monday) \o <<"]">>}

\* answers with one part
OnePart ==
    {ObjText(<<Member(GenKeys[i], v)>>) :
        <<i, v>> \in UNION {{i} \X PartValueTexts(i) : i \in 1..Len(GenKeys)}}

\* answers with n consecutive parts starting at part i, each with all five
\* days (full[m] true) or with Monday alone
Window(i, n, full) ==
    ObjText([m \in 1..n |->
                Member(GenKeys[i + m - 1],
                       DayMapText(i + m - 1, IF full[m] THEN 1..5 ELSE {1}))])

SeveralParts ==
    UNION {{Window(i, n, full) : full \in [1..n -> BOOLEAN]} :
             <<i, n>> \in {<<a, b>> \in (1..Len(GenKeys)) \X (2..MaxParts) :
                             a + b - 1 <= Len(GenKeys)}}

\* the answer the prompt asks for: all ten parts, each with all five days
Complete == Window(1, Len(row_labels), [m \in 1..Len(row_labels) |-> TRUE])

\* line 86 of the prompt's example, as the only part, spaced out
Spaced ==
    <<"\n", "{", " ">> \o Q(k_review) \o <<" ", ":", " ", "{">> \o Q(Monday)
    \o <<":", " ">> \o Q(<<"R", "e", "c", "a", "l", "l">>) \o <<" ", "}", "\n", "}", "\n">>

OnlyReviewMonday == ObjText(<<Member(k_review, DayMapText(1, {1}))>>)

\* a part given twice: the later one wins
Twice ==
    ObjText(<<Member(k_review, lit_null), Member(k_review, DayMapText(1, {1}))>>)

\* a cell text that holds a fence marker
FenceInside ==
    ObjText(<<Member(k_review,
                ObjText(<<Member(Monday, Q(<<"a">> \o FENCE \o <<"b">>))>>))>>)

\* JSON whose top level is no object
NotObject ==
    {<<"[", "]">>, <<"[">> \o Q(k_review) \o <<"]">>,
     <<"[">> \o OnlyReviewMonday \o <<"]">>, <<"[", "1", ",", "2", "]">>,
     Q(k_review), Q(<<"x">> \o k_purpose \o <<"x">>), Q(<<"a", "b", "c">>),
     Q(<<>>), <<"5">>, <<"-", "1", ".", "5", "e", "3">>, lit_true, lit_false,
     lit_null, lit_NaN}

\* text that is no JSON
NotJson ==
    {<<>>, <<" ">>, <<"{">>, <<"}">>, <<"{">> \o Q(k_review) \o <<"}">>,
     <<"{">> \o Q(k_review) \o <<":", "}">>,
     <<"{">> \o Member(k_review, DayMapText(1, {1})) \o <<",", "}">>,
     <<"{">> \o k_review \o <<":", "1", "}">>,
     <<"{", "}", " ", "x">>, <<"{", "}", "{", "}">>, <<"[", "1", ",", "]">>,
     <<QUOTE, "a", "b">>, <<QUOTE, "a", "\n", "b", QUOTE>>,
     <<"t", "r", "u">>, <<"0", "1">>, <<"S", "o", "r", "r", "y", ".">>,
     <<"{">> \o Member(k_review, <<"1">>) \o <<" ">>
            \o Member(k_purpose, <<"2">>) \o <<"}">>}

\* the ways an answer comes wrapped: bare, in a json-labelled fence, in an
\* unlabelled fence, with the usual line breaks, with prose before or after
\* the fence, in two fenced blocks
Here == <<"H", "e", "r", "e", ":", "\n">>
Wrappings(x) ==
    {FENCE_JSON \o x \o FENCE,
     FENCE \o x \o FENCE,
     FENCE_JSON \o <<"\n">> \o x \o <<"\n">> \o FENCE \o <<"\n">>,
     Here \o FENCE_JSON \o <<"\n">> \o x \o <<"\n">> \o FENCE,
     FENCE_JSON \o x \o FENCE \o <<"\n", "O", "K", ".">>,
     FENCE \o <<"j", "s">> \o FENCE \o <<"\n">> \o FENCE_JSON \o x \o FENCE,
     FENCE_JSON \o x}

Wrapped ==
    UNION {Wrappings(x) :
             x \in {OnlyReviewMonday, FenceInside, <<"[", "]">>, <<"{">>, <<"5">>}}

Responses ==
    OnePart \cup SeveralParts \cup NotObject \cup NotJson \cup Wrapped
    \cup {Complete, Spaced, OnlyReviewMonday, Twice, FenceInside,
          ObjText(<<>>)}

---------------------------------------------------------------------------
(* One run of the script.  A variable the run has not assigned yet is the  *)
(* empty sequence, an assigned one the one-element sequence of its value.  *)

NoExc == [type |-> "", pos |-> 0]
Exc(type, pos) == [type |-> type, pos |-> pos]
Msg(kind, text, e) == [kind |-> kind, text |-> text, e |-> e]

Init ==
    /\ api_key \in ApiKeys
    /\ uploaded_file \in Files
    /\ subject \in Subjects
    /\ grade_level \in Grades
    /\ pc = "idle"
    /\ prev_offer = <<>>
    /\ configured = FALSE
    /\ model = <<>>
    /\ requests = 0
    /\ response_text = <<>>
    /\ json_str = <<>>
    /\ data = <<>>
    /\ table = <<>>
    /\ row = 0
    /\ doc_io = <<>>
    /\ shown = <<>>
    /\ download = <<>>

form == <<api_key, uploaded_file, subject, grade_level, prev_offer>>

\* lines 172-173 with a second attempt: the exception is shown and the
\* request is issued once more
ExceptRetry(e) ==
    /\ shown' = Append(shown, Msg("error", "An error occurred: ", e))
    /\ pc' = IF requests < 2 THEN "generate" ELSE "done"

\* lines 172-173: the handler's except clause shows the exception and the
\* run is over
Except(e) ==
    /\ shown' = Append(shown, Msg("error", "An error occurred: ", e))
    /\ pc' = "done"

\* lines 44-49 without the check of line 47
ClickNoFileCheck ==
    /\ pc = "idle"
    /\ IF api_key = <<>>
       THEN /\ shown' = Append(shown,
                   Msg("error", "Please enter your API Key in the sidebar.", NoExc))
            /\ pc' = "done"
       ELSE /\ pc' = "configure"
            /\ shown' = shown
    /\ UNCHANGED <<form, configured, model, requests, response_text, json_str,
                   data, table, row, doc_io, download>>

\* lines 44-49: the button is clicked; the two input checks
Click ==
    /\ pc = "idle"
    /\ IF api_key = <<>>
       THEN /\ shown' = Append(shown,
                   Msg("error", "Please enter your API Key in the sidebar.", NoExc))
            /\ pc' = "done"
       ELSE IF uploaded_file = <<>>
       THEN /\ shown' = Append(shown,
                   Msg("error", "Please upload a module/material.", NoExc))
            /\ pc' = "done"
       ELSE /\ pc' = "configure"
            /\ shown' = shown
    /\ UNCHANGED <<form, configured, model, requests, response_text, json_str,
                   data, table, row, doc_io, download>>

\* line 53
Configure ==
    /\ pc = "configure"
    /\ configured' = TRUE
    /\ pc' = "setup_model"
    /\ UNCHANGED <<form, model, requests, response_text, json_str, data,
                   table, row, doc_io, shown, download>>

\* lines 63-66: the file is read, the model is named
SetupModel ==
    /\ pc = "setup_model"
    /\ model' = <<gemini_1_5_flash>>
    /\ pc' = "generate"
    /\ UNCHANGED <<form, configured, requests, response_text, json_str, data,
                   table, row, doc_io, shown, download>>

\* lines 101-104 and the read of response.text on line 108: the request is
\* issued; the provider answers with a text, or the call raises
GenerateContent ==
    /\ pc = "generate"
    /\ requests' = requests + 1
    /\ \/ /\ \E r \in Responses : response_text' = <<r>>
          /\ pc' = "normalize"
          /\ shown' = shown
       \/ /\ Except(Exc("ProviderError", 0))
          /\ response_text' = response_text
    /\ UNCHANGED <<form, configured, model, json_str, data, table, row,
                   doc_io, download>>

\* line 108
Normalize ==
    /\ pc = "normalize"
    /\ json_str' = <<JsonStr(response_text[1])>>
    /\ pc' = "loads"
    /\ UNCHANGED <<form, configured, model, requests, response_text, data,
                   table, row, doc_io, shown, download>>

\* line 109
\* line 109 with a fallback: text that does not parse counts as an empty
\* object
LoadedLenient(r) ==
    /\ data' = <<IF r.ok THEN r.val ELSE Val("dict", <<>>)>>
    /\ pc' = "create_doc"
    /\ shown' = shown

\* line 109, r the outcome of json.loads: the value is bound to data, or
\* the JSONDecodeError reaches the except clause
Loaded(r) ==
    IF r.ok
    THEN /\ data' = <<r.val>>
         /\ pc' = "create_doc"
         /\ shown' = shown
    ELSE /\ Except(Exc("JSONDecodeError", r.end))
         /\ data' = data

JsonLoads ==
    /\ pc = "loads"
    /\ Loaded(Loads(json_str[1]))
    /\ UNCHANGED <<form, configured, model, requests, response_text, json_str,
                   table, row, doc_io, download>>

\* lines 130-133
HeaderRow == <<hdr_label>> \o days

\* lines 112-133: the document with its heading and paragraphs, the table
\* with its header row
CreateDoc ==
    /\ pc = "create_doc"
    /\ table' = <<HeaderRow>>
    /\ row' = 1
    /\ pc' = "rows"
    /\ UNCHANGED <<form, configured, model, requests, response_text, json_str,
                   data, doc_io, shown, download>>

\* lines 149-155: one pass of the loop over row_labels
\* the rest of one pass, f the outcome of lines 150-155
Added(f) ==
    /\ table' = Append(table, f.val)
    /\ IF f.raised = ""
       THEN /\ row' = row + 1
            /\ pc' = IF row = Len(row_labels) THEN "save" ELSE "rows"
            /\ shown' = shown
       ELSE /\ Except(Exc(f.raised, 0))
            /\ row' = row

AddRow ==
    /\ pc = "rows"
    /\ Added(FillRow(data[1], row_labels[row]))
    /\ UNCHANGED <<form, configured, model, requests, response_text, json_str,
                   data, doc_io, download>>

\* lines 120-123 and the table: what doc.save writes
Document ==
    [heading |-> heading_prefix \o subject \o <<" ">> \o grade_level,
     paragraphs |-> <<week_prefix \o quarter, content_prefix \o content_std,
                      perf_prefix \o perf_std>>,
     table |-> table]

\* lines 158-160: the document is written to the buffer, or the write raises
Save ==
    /\ pc = "save"
    /\ \/ /\ doc_io' = <<Document>>
          /\ pc' = "offer"
          /\ shown' = shown
       \/ /\ Except(Exc("OSError", 0))
          /\ doc_io' = doc_io
    /\ UNCHANGED <<form, configured, model, requests, response_text, json_str,
                   data, table, row, download>>

\* line 168
FileName(subj, grade) == Lesson_Plan_docx

\* lines 162-170
Offer ==
    /\ pc = "offer"
    /\ shown' = Append(shown, Msg("success", "Lesson Plan Generated!", NoExc))
    /\ download' = <<[data |-> doc_io[1],
                      file_name |-> FileName(subject, grade_level)]>>
    /\ pc' = "done"
    /\ UNCHANGED <<form, configured, model, requests, response_text, json_str,
                   data, table, row, doc_io>>

\* the user edits the form: the script runs again from the top with the
\* button not clicked, and what the last run showed is gone.  prev_offer
\* remembers the request and the file name of the last download offered.
Rerun ==
    /\ pc = "done"
    /\ api_key' \in ApiKeys
    /\ uploaded_file' \in Files
    /\ subject' \in Subjects
    /\ grade_level' \in Grades
    /\ prev_offer' = IF download = <<>> THEN prev_offer
                     ELSE <<[subject |-> subject, grade_level |-> grade_level,
                             file_name |-> download[1].file_name]>>
    /\ pc' = "idle"
    /\ configured' = FALSE
    /\ model' = <<>>
    /\ requests' = 0
    /\ response_text' = <<>>
    /\ json_str' = <<>>
    /\ data' = <<>>
    /\ table' = <<>>
    /\ row' = 0
    /\ doc_io' = <<>>
    /\ shown' = <<>>
    /\ download' = <<>>

Next ==
    \/ Click
    \/ Configure
    \/ SetupModel
    \/ GenerateContent
    \/ Normalize
    \/ JsonLoads
    \/ CreateDoc
    \/ AddRow
    \/ Save
    \/ Offer
    \/ Rerun

---------------------------------------------------------------------------
(* The clean-up of line 108 and the parse of line 109 on their own: the    *)
(* run has just received the response, and the response is any text made   *)
(* of at most MaxPieces pieces of fences, labels, quotes and JSON, bare or  *)
(* wrapped in a json-labelled fence.                                       *)

MaxPieces == 4

Pieces ==
    {<<BT>>, FENCE, <<"j", "s", "o", "n">>, <<"{", "}">>, <<"x">>, <<QUOTE>>}

RECURSIVE Texts(_)
Texts(n) ==
    IF n = 0 THEN {<<>>}
    ELSE Texts(n - 1) \cup {t \o q : t \in Texts(n - 1), q \in Pieces}

\* every such text, bare and between a json-labelled fence and a closing
\* fence
NormalizeTexts ==
    Texts(MaxPieces) \cup {FENCE_JSON \o t \o FENCE : t \in Texts(MaxPieces)}

InitNormalize ==
    /\ api_key = <<"k">>
    /\ uploaded_file = <<[type |-> <<"t", "x", "t">>, data |-> <<"m">>]>>
    /\ subject = Science
    /\ grade_level = Grade5
    /\ prev_offer = <<>>
    /\ pc = "normalize"
    /\ configured = TRUE
    /\ model = <<gemini_1_5_flash>>
    /\ requests = 1
    /\ response_text \in {<<t>> : t \in NormalizeTexts}
    /\ json_str = <<>>
    /\ data = <<>>
    /\ table = <<>>
    /\ row = 0
    /\ doc_io = <<>>
    /\ shown = <<>>
    /\ download = <<>>

NextNormalize ==
    \/ Normalize
    \/ JsonLoads

SpecNormalize == InitNormalize /\ [][NextNormalize]_vars

Spec == Init /\ [][Next]_vars

---------------------------------------------------------------------------
(* The properties.                                                         *)

\* the ten parts in their fixed order, by key and by display label
FixedKeys ==
    <<k_review, k_purpose, k_examples, k_discuss_1, k_discuss_2, k_mastery,
      k_application, k_generalization, k_evaluation, k_remediation>>
FixedLabels ==
    <<l_review, l_purpose, l_examples, l_discuss_1, l_discuss_2, l_mastery,
      l_application, l_generalization, l_evaluation, l_remediation>>
Weekdays == <<Monday, Tuesday, Wednesday, Thursday, Friday>>

\* an error message is the only thing the run showed, and no download is
\* offered
ErrorOutcome ==
    /\ pc = "done"
    /\ Len(shown) = 1
    /\ shown[1].kind = "error"
    /\ download = <<>>

\* the run showed the message of a raised exception
Failed == \E i \in 1..Len(shown) : shown[i].kind = "error" /\ shown[i].e.type # ""

\* C1: whenever a run has saved a document, its table is the header row
\* followed by exactly ten data rows, labelled with the ten parts in their
\* fixed order, and every row has exactly six columns; whatever the parsed
\* response lacks or holds beyond the ten parts.
C1_TableShape ==
    doc_io # <<>> =>
        /\ Len(doc_io[1].table) = 11
        /\ doc_io[1].table[1] = <<hdr_label>> \o Weekdays
        /\ \A i \in 1..10 : doc_io[1].table[i + 1][1] = FixedLabels[i]
        /\ \A r \in 1..11 : Len(doc_io[1].table[r]) = 6

\* a document was saved for a response that is an object with a key outside
\* the fixed ten and without any of the ten
C1_Witness ==
    /\ doc_io # <<>>
    /\ data[1].t = "dict"
    /\ k_notes \in Keys(data[1].v)
    /\ \A i \in 1..10 : FixedKeys[i] \notin Keys(data[1].v)

\* a part value that maps weekdays to text
WeekdayTexts(m) ==
    /\ m.t = "dict"
    /\ \A j \in 1..5 :
          Weekdays[j] \in Keys(m.v) => Item(m.v, Weekdays[j]).t = "str"

\* a parsed object whose present parts map weekdays to text
WellFormed(d) ==
    /\ d.t = "dict"
    /\ \A i \in 1..10 :
          FixedKeys[i] \in Keys(d.v) => WeekdayTexts(Item(d.v, FixedKeys[i]))

\* matrix[k][d] when both are present, the empty text otherwise
Expected(d, k, day) ==
    IF k \in Keys(d.v) /\ day \in Keys(Item(d.v, k).v)
    THEN Item(Item(d.v, k).v, day).v
    ELSE <<>>

\* C2: for a parsed object whose present parts map weekdays to text, once
\* the loop over the parts is through, the table holds the ten rows, row i
\* starts with the label of part i, and its cell for day j is matrix[k][d]
\* as it was parsed when both are present and the empty text otherwise.
C2_Cells ==
    (data # <<>> /\ pc \in {"save", "offer", "done"} /\ WellFormed(data[1])) =>
        /\ Len(table) = 11
        /\ \A i \in 1..10 :
              /\ table[i + 1][1] = FixedLabels[i]
              /\ \A j \in 1..5 :
                    table[i + 1][j + 1] = Expected(data[1], FixedKeys[i], Weekdays[j])

\* the download is offered for a response with all ten parts and all five
\* days: sixty cells, none of them empty
C2_Witness ==
    /\ download # <<>>
    /\ WellFormed(data[1])
    /\ \A i \in 1..10 : \A j \in 1..5 :
          /\ Expected(data[1], FixedKeys[i], Weekdays[j]) # <<>>
          /\ download[1].data.table[i + 1][j + 1]
                = Expected(data[1], FixedKeys[i], Weekdays[j])

\* C3: when the text left by the clean-up is not valid JSON, the run is
\* over with the error message of the parse failure as the only thing
\* shown, and no table was built, no document saved, no download offered.
C3_ParseError ==
    (json_str # <<>> /\ pc # "loads" /\ ~Loads(json_str[1]).ok) =>
        /\ ErrorOutcome
        /\ shown[1].e.type = "JSONDecodeError"
        /\ data = <<>>
        /\ table = <<>>
        /\ doc_io = <<>>

\* a fenced answer with prose in front of the fence ended in the parse error
C3_Witness ==
    /\ pc = "done"
    /\ response_text = <<Here \o FENCE_JSON \o <<"\n">> \o OnlyReviewMonday
                          \o <<"\n">> \o FENCE>>
    /\ shown[1].e.type = "JSONDecodeError"

\* the three-case policy: the content from index a up to the next fence
\* marker (to the end of the text when no marker follows)
UpToFence(t, a, b) == SubSeq(t, a, IF b = 0 THEN Len(t) ELSE b - 1)
AfterMarker(t, a) == UpToFence(t, a, Find(t, FENCE, a))
ThreeCase(t) ==
    IF Find(t, FENCE_JSON, 1) # 0
    THEN AfterMarker(t, Find(t, FENCE_JSON, 1) + Len(FENCE_JSON))
    ELSE IF Find(t, FENCE, 1) # 0
         THEN AfterMarker(t, Find(t, FENCE, 1) + Len(FENCE))
         ELSE t

\* C4: the text handed to the JSON parser is what the three-case policy
\* gives for the response text: the content between a json-labelled fence
\* and the next fence marker, else the content between the first pair of
\* fence markers, else the text itself.
C4_ThreeCase == json_str # <<>> => json_str[1] = ThreeCase(response_text[1])

\* a response that is X between a json-labelled fence and a closing fence
IsJsonFenced(t) ==
    /\ Len(t) >= Len(FENCE_JSON) + Len(FENCE)
    /\ SubSeq(t, 1, Len(FENCE_JSON)) = FENCE_JSON
    /\ SubSeq(t, Len(t) - Len(FENCE) + 1, Len(t)) = FENCE
Inner(t) == SubSeq(t, Len(FENCE_JSON) + 1, Len(t) - Len(FENCE))

\* C5: when the response is a text X between a json-labelled opening fence
\* and a closing fence, the text handed to the parser is the same as the
\* clean-up gives for X alone, also when X holds fence markers.
C5_FenceTransparent ==
    (json_str # <<>> /\ IsJsonFenced(response_text[1])) =>
        json_str[1] = JsonStr(Inner(response_text[1]))

\* the fenced X is a JSON string that holds a fence marker
C5_Witness ==
    /\ json_str # <<>>
    /\ response_text = <<FENCE_JSON \o <<QUOTE>> \o FENCE \o <<QUOTE>> \o FENCE>>
    /\ data # <<>>
    /\ data[1].t = "str"

\* C6: when the cleaned text is valid JSON whose top level is not an
\* object, the run ends with an error message and offers no download.
C6_NonObjectFails ==
    (pc = "done" /\ data # <<>> /\ data[1].t # "dict") => ErrorOutcome

\* C7: when the button is clicked with the API key or the upload missing,
\* the run is over with one error message and nothing else has happened:
\* no configure, no model, no request, no table, no document, no download.
C7_MissingInput ==
    ((api_key = <<>> \/ uploaded_file = <<>>) /\ pc # "idle") =>
        /\ ErrorOutcome
        /\ shown[1].e = NoExc
        /\ ~configured
        /\ model = <<>>
        /\ requests = 0
        /\ response_text = <<>>
        /\ json_str = <<>>
        /\ data = <<>>
        /\ table = <<>>
        /\ doc_io = <<>>

\* the key is there, the upload is not, and the button was clicked
C7_Witness == pc = "done" /\ api_key # <<>> /\ uploaded_file = <<>>

\* C8: in a run the model is named before the request and stays the same,
\* at most one request is issued, and once an exception was shown the run
\* is over with that one message and no download, and no stage after the
\* failed one has run.
C8_NoRetry ==
    /\ requests <= 1
    /\ requests = 1 => model # <<>>
    /\ model \in {<<>>, <<gemini_1_5_flash>>}
    /\ Failed =>
          /\ ErrorOutcome
          /\ shown[1].e.type = "ProviderError" =>
                response_text = <<>> /\ json_str = <<>> /\ data = <<>>
          /\ shown[1].e.type \in {"ProviderError", "JSONDecodeError"} =>
                data = <<>> /\ table = <<>>
          /\ doc_io = <<>>

\* the request itself failed
C8_Witness ==
    /\ pc = "done"
    /\ requests = 1
    /\ Failed
    /\ shown[1].e.type = "ProviderError"

\* C9: the file name of the download is a function of the request's
\* subject and grade that tells requests apart: the same subject and grade
\* give the same name as the previous offer, another subject or grade give
\* another name.
C9_NameFromRequest ==
    (download # <<>> /\ prev_offer # <<>>) =>
        ((download[1].file_name = prev_offer[1].file_name)
            <=> (subject = prev_offer[1].subject
                    /\ grade_level = prev_offer[1].grade_level))

\* the run stopped in the loop over the parts, at the row added last
RowRaised ==
    /\ pc = "done"
    /\ table # <<>>
    /\ Failed
    /\ shown[1].e.type \in {"TypeError", "AttributeError"}

\* C10: for a parsed object, a part among the fixed ten whose value is no
\* mapping ends the run with an error message and no download; and a row
\* only ever raises for a part the object holds.
C10_NonMappingPart ==
    (pc = "done" /\ data # <<>> /\ data[1].t = "dict") =>
        /\ (\E i \in 1..10 :
               /\ FixedKeys[i] \in Keys(data[1].v)
               /\ Item(data[1].v, FixedKeys[i]).t # "dict") => ErrorOutcome
        /\ RowRaised => FixedKeys[Len(table) - 1] \in Keys(data[1].v)

\* the object holds review as null, and the run ended with the error
C10_Witness ==
    /\ pc = "done"
    /\ data # <<>>
    /\ data[1].t = "dict"
    /\ k_review \in Keys(data[1].v)
    /\ Item(data[1].v, k_review).t = "NoneType"
    /\ Failed

====
